---- MODULE Spec2Model ----
(***************************************************************************)
(* Model of the todo application: the axios API client of                  *)
(* frontend/src/utils/api.ts (request interceptor, 401 refresh-and-retry   *)
(* response interceptor) and the backend's user and task operations.       *)
(*                                                                         *)
(* Three specifications share the variables:                               *)
(*   SpecClient / FairSpecClient : the API client and its token storage    *)
(*   SpecUsers                   : register and PUT /me                    *)
(*   SpecTasks                   : task create/get/update/delete/toggle/   *)
(*                                 list, scoped by the authenticated caller*)
(***************************************************************************)
EXTENDS Integers, Sequences, FiniteSets, Bags, TLC

(***************************************************************************)
(* Bounds                                                                  *)
(***************************************************************************)
\* number of requests the application sends through apiClient
NumReq == 2
\* the attempt and refresh-call counters saturate here
MaxCount == 3

Requests == 1..NumReq
\* token values a login or a refresh may put in storage; None: no value
None == "none"
Tokens == {"token1", "token2"}
TokenOrNone == Tokens \cup {None}

StatusUnauthorized == 401
\* statuses of a failed call; NoResponse stands for an error without a
\* response (network error, the 30 s timeout of the axios instance)
NoResponse == 0
ErrorStatuses == {NoResponse, StatusUnauthorized, 500}

AppPage == "/dashboard"
LoginPage == "/auth/login"

VARIABLES
  access_token,    \* localStorage item 'access_token' (None: absent)
  refresh_token,   \* localStorage item 'refresh_token' (None: absent)
  location,        \* window.location.href
  pc,              \* per request: idle, sent, refreshing, resolved, rejected
  retry,           \* per request: originalRequest._retry
  authHeader,      \* per request: config.headers.Authorization (the token)
  attempts,        \* per request: times the request was put on the wire
  refreshCalls,    \* per request: refresh calls its 401 handling issued
  refreshResult,   \* per request: none, pending, ok, failed
  outcome,         \* per request: what the caller's promise settled with
  lastSent,        \* the outbound HTTP call issued most recently
  users,           \* backend: user id -> user row
  tasks,           \* backend: task id -> task row
  nextTaskId,      \* backend: the next task id to hand out
  lastReq,         \* backend: the request handled most recently
  lastResp,        \* backend: its response
  password_reset_tokens, \* backend: token id -> row of password_reset_tokens
  routes,          \* backend: the routes of tasks.py in registration order
  session,         \* backend: the database session of the request in progress
  showTaskModal,   \* dashboard: the task form modal is open
  editingTask,     \* dashboard: the task being edited (NoTask: null)
  deletingTask,    \* dashboard: the task to delete (NoTask: null)
  refreshTrigger,  \* dashboard: the counter handed to TaskTable
  inFlight,        \* dashboard: the taskApi calls awaited by a handler
  lastCall         \* dashboard: the taskApi call that settled most recently

clientVars == <<access_token, refresh_token, location, pc, retry, authHeader,
                attempts, refreshCalls, refreshResult, outcome,
                lastSent>>
serverVars == <<users, tasks, nextTaskId, lastReq, lastResp>>
vars == <<access_token, refresh_token, location, pc, retry, authHeader,
          attempts, refreshCalls, refreshResult, outcome,
          lastSent, users, tasks, nextTaskId, lastReq, lastResp,
          password_reset_tokens, routes, session,
          showTaskModal, editingTask, deletingTask, refreshTrigger,
          inFlight, lastCall>>
\* the state of the dashboard page
pageVars == <<showTaskModal, editingTask, deletingTask, refreshTrigger,
              inFlight, lastCall>>
\* the parts of the backend that the client, the user and the task
\* operations never touch
auxVars == <<password_reset_tokens, routes, session, pageVars>>

Bump(n) == IF n < MaxCount THEN n + 1 ELSE n

NoCall == [kind |-> "none", hdr |-> None, stored |-> None]

(***************************************************************************)
(* The API client, frontend/src/utils/api.ts                               *)
(***************************************************************************)

\* variant: the interceptor never attaches the stored token
RequestInterceptorKeepsHeader(hdr, token) == hdr

\* apiClient.interceptors.request: the stored access token, when there is
\* one, replaces the Authorization header; otherwise the header is kept.
RequestInterceptor(hdr, token) == IF token # None THEN token ELSE hdr

\* variant: the guard forgets the _retry flag
ShouldRefreshIgnoringRetry(status, retried) == status = StatusUnauthorized

\* variant: every error of a first attempt starts the refresh
ShouldRefreshOnAnyError(status, retried) == ~retried

\* the guard of the 401 handling
ShouldRefresh(status, retried) == status = StatusUnauthorized /\ ~retried

\* variant: the catch block leaves the refresh token in storage
ClearAccessOnlyAndRedirect ==
  /\ access_token' = None
  /\ refresh_token' = refresh_token
  /\ location' = LoginPage

\* variant: the catch block does not navigate
ClearWithoutRedirect ==
  /\ access_token' = None
  /\ refresh_token' = None
  /\ location' = location

\* the catch block of the 401 handling
ClearAndRedirect ==
  /\ access_token' = None
  /\ refresh_token' = None
  /\ location' = LoginPage

\* the endpoint a request goes to: the first is a login call, the others
\* are task calls; the interceptors do not look at it
Endpoint(r) == IF r = 1 THEN "/api/v1/login" ELSE "/api/v1/tasks"

\* a caller sends request r through apiClient
Request(r) ==
  /\ pc[r] = "idle"
  /\ pc' = [pc EXCEPT ![r] = "sent"]
  /\ authHeader' = [authHeader EXCEPT ![r] = RequestInterceptor(@, access_token)]
  /\ attempts' = [attempts EXCEPT ![r] = Bump(@)]
  /\ lastSent' = [kind |-> "api", hdr |-> authHeader'[r],
                  stored |-> access_token]
  /\ UNCHANGED <<access_token, refresh_token, location, retry, refreshCalls,
                 refreshResult, outcome>>
  /\ UNCHANGED <<serverVars, auxVars>>

\* a 2xx response: the response interceptor passes it through
ResponseOk(r) ==
  /\ pc[r] = "sent"
  /\ pc' = [pc EXCEPT ![r] = "resolved"]
  /\ outcome' = [outcome EXCEPT ![r] = [kind |-> "response", status |-> 200]]
  /\ UNCHANGED <<access_token, refresh_token, location, retry, authHeader,
                 attempts, refreshCalls, refreshResult, lastSent>>
  /\ UNCHANGED <<serverVars, auxVars>>

\* variant: a 401 that arrives while another request is refreshing waits
\* for that refresh instead of starting its own
ResponseErrorCoalesces(r, status) ==
  /\ pc[r] = "sent"
  /\ IF ShouldRefresh(status, retry[r])
       THEN /\ retry' = [retry EXCEPT ![r] = TRUE]
            /\ IF refresh_token = None
                 THEN /\ ClearAndRedirect
                      /\ pc' = [pc EXCEPT ![r] = "rejected"]
                      /\ outcome' = [outcome EXCEPT ![r] =
                                       [kind |-> "refreshError", status |-> NoResponse]]
                      /\ refreshResult' = [refreshResult EXCEPT ![r] = "failed"]
                      /\ UNCHANGED <<refreshCalls, lastSent>>
                 ELSE /\ pc' = [pc EXCEPT ![r] = "refreshing"]
                      /\ refreshCalls' =
                           [refreshCalls EXCEPT ![r] =
                              IF \E q \in Requests : pc[q] = "refreshing"
                                THEN @ ELSE Bump(@)]
                      /\ refreshResult' = [refreshResult EXCEPT ![r] = "pending"]
                      /\ lastSent' = [kind |-> "refresh", hdr |-> None,
                                      stored |-> access_token]
                      /\ outcome' = [outcome EXCEPT ![r] =
                                       [kind |-> "pending", status |-> status]]
                      /\ UNCHANGED <<access_token, refresh_token, location>>
       ELSE /\ pc' = [pc EXCEPT ![r] = "rejected"]
            /\ outcome' = [outcome EXCEPT ![r] = [kind |-> "error", status |-> status]]
            /\ UNCHANGED <<access_token, refresh_token, location, retry,
                           refreshCalls, refreshResult, lastSent>>
  /\ UNCHANGED <<authHeader, attempts>>
  /\ UNCHANGED <<serverVars, auxVars>>

\* the error handler of the response interceptor, up to its first await
ResponseError(r, status) ==
  /\ pc[r] = "sent"
  /\ IF ShouldRefresh(status, retry[r])
       THEN /\ retry' = [retry EXCEPT ![r] = TRUE]
            /\ IF refresh_token = None
                 THEN \* throw new Error('No refresh token available')
                      /\ ClearAndRedirect
                      /\ pc' = [pc EXCEPT ![r] = "rejected"]
                      /\ outcome' = [outcome EXCEPT ![r] =
                                       [kind |-> "refreshError", status |-> NoResponse]]
                      /\ refreshResult' = [refreshResult EXCEPT ![r] = "failed"]
                      /\ UNCHANGED <<refreshCalls, lastSent>>
                 ELSE \* axios.post(`${API_BASE_URL}/api/v1/refresh`, ...)
                      /\ pc' = [pc EXCEPT ![r] = "refreshing"]
                      /\ refreshCalls' = [refreshCalls EXCEPT ![r] = Bump(@)]
                      /\ refreshResult' = [refreshResult EXCEPT ![r] = "pending"]
                      /\ lastSent' = [kind |-> "refresh", hdr |-> None,
                                      stored |-> access_token]
                      /\ outcome' = [outcome EXCEPT ![r] =
                                       [kind |-> "pending", status |-> status]]
                      /\ UNCHANGED <<access_token, refresh_token, location>>
       ELSE \* return Promise.reject(error)
            /\ pc' = [pc EXCEPT ![r] = "rejected"]
            /\ outcome' = [outcome EXCEPT ![r] = [kind |-> "error", status |-> status]]
            /\ UNCHANGED <<access_token, refresh_token, location, retry,
                           refreshCalls, refreshResult, lastSent>>
  /\ UNCHANGED <<authHeader, attempts>>
  /\ UNCHANGED <<serverVars, auxVars>>

\* variant: the refresh token of the response is stored even when absent
RefreshOkDropsRefreshToken(r, at, newRefresh) ==
  /\ pc[r] = "refreshing"
  /\ access_token' = at
  /\ refresh_token' = newRefresh
  /\ refreshResult' = [refreshResult EXCEPT ![r] = "ok"]
  /\ authHeader' = [authHeader EXCEPT ![r] = RequestInterceptor(at, access_token')]
  /\ attempts' = [attempts EXCEPT ![r] = Bump(@)]
  /\ pc' = [pc EXCEPT ![r] = "sent"]
  /\ lastSent' = [kind |-> "api", hdr |-> authHeader'[r],
                  stored |-> access_token']
  /\ UNCHANGED <<location, retry, refreshCalls, outcome>>
  /\ UNCHANGED <<serverVars, auxVars>>

\* variant: the retry goes out with the header of the first attempt
RefreshOkKeepsHeader(r, at, newRefresh) ==
  /\ pc[r] = "refreshing"
  /\ access_token' = at
  /\ refresh_token' = IF newRefresh # None THEN newRefresh ELSE refresh_token
  /\ refreshResult' = [refreshResult EXCEPT ![r] = "ok"]
  /\ authHeader' = authHeader
  /\ attempts' = [attempts EXCEPT ![r] = Bump(@)]
  /\ pc' = [pc EXCEPT ![r] = "sent"]
  /\ lastSent' = [kind |-> "api", hdr |-> authHeader'[r],
                  stored |-> access_token']
  /\ UNCHANGED <<location, retry, refreshCalls, outcome>>
  /\ UNCHANGED <<serverVars, auxVars>>

\* the refresh call returned 2xx with access token at and, when newRefresh
\* is not None, a refresh token: both are stored and the request is sent
\* again.  The request interceptor of the retry runs in the microtask that
\* follows `return apiClient(originalRequest)`, before any other network
\* event is handled, so it reads the storage written here.
RefreshOk(r, at, newRefresh) ==
  /\ pc[r] = "refreshing"
  /\ access_token' = at
  /\ refresh_token' = IF newRefresh # None THEN newRefresh ELSE refresh_token
  /\ refreshResult' = [refreshResult EXCEPT ![r] = "ok"]
  /\ authHeader' = [authHeader EXCEPT ![r] = RequestInterceptor(at, access_token')]
  /\ attempts' = [attempts EXCEPT ![r] = Bump(@)]
  /\ pc' = [pc EXCEPT ![r] = "sent"]
  /\ lastSent' = [kind |-> "api", hdr |-> authHeader'[r],
                  stored |-> access_token']
  /\ UNCHANGED <<location, retry, refreshCalls, outcome>>
  /\ UNCHANGED <<serverVars, auxVars>>

\* variant: the catch block sends the request again
RefreshFailRetries(r, status) ==
  /\ pc[r] = "refreshing"
  /\ ClearAndRedirect
  /\ refreshResult' = [refreshResult EXCEPT ![r] = "failed"]
  /\ authHeader' = [authHeader EXCEPT ![r] = RequestInterceptor(@, access_token')]
  /\ attempts' = [attempts EXCEPT ![r] = Bump(@)]
  /\ pc' = [pc EXCEPT ![r] = "sent"]
  /\ lastSent' = [kind |-> "api", hdr |-> authHeader'[r],
                  stored |-> access_token']
  /\ UNCHANGED <<retry, refreshCalls, outcome>>
  /\ UNCHANGED <<serverVars, auxVars>>

\* variant: the catch block rejects with the 401 of the request
RefreshFailDeliversOriginal(r, status) ==
  /\ pc[r] = "refreshing"
  /\ ClearAndRedirect
  /\ refreshResult' = [refreshResult EXCEPT ![r] = "failed"]
  /\ pc' = [pc EXCEPT ![r] = "rejected"]
  /\ outcome' = [outcome EXCEPT ![r] =
                   [kind |-> "error", status |-> StatusUnauthorized]]
  /\ UNCHANGED <<retry, authHeader, attempts, refreshCalls, lastSent>>
  /\ UNCHANGED <<serverVars, auxVars>>

\* the refresh call failed (any error status, or no response at all)
RefreshFail(r, status) ==
  /\ pc[r] = "refreshing"
  /\ ClearAndRedirect
  /\ refreshResult' = [refreshResult EXCEPT ![r] = "failed"]
  /\ pc' = [pc EXCEPT ![r] = "rejected"]
  /\ outcome' = [outcome EXCEPT ![r] = [kind |-> "refreshError", status |-> status]]
  /\ UNCHANGED <<retry, authHeader, attempts, refreshCalls, lastSent>>
  /\ UNCHANGED <<serverVars, auxVars>>

\* no request holds a database session
NoSession == [status |-> "idle"]

\* null in the task selections of the dashboard
NoTask == 0
NoCallSettled == [op |-> "none", id |-> NoTask, result |-> "none"]

\* the dashboard after its first render
InitPage ==
  /\ showTaskModal = FALSE
  /\ editingTask = NoTask
  /\ deletingTask = NoTask
  /\ refreshTrigger = 0
  /\ inFlight = EmptyBag
  /\ lastCall = NoCallSettled

InitAuxIdle ==
  /\ password_reset_tokens = <<>>
  /\ routes = <<>>
  /\ session = NoSession
  /\ InitPage

InitServerIdle ==
  /\ InitAuxIdle
  /\ users = <<>>
  /\ tasks = <<>>
  /\ nextTaskId = 1
  /\ lastReq = [op |-> "none"]
  /\ lastResp = [status |-> 0]

InitClient ==
  /\ access_token \in TokenOrNone
  /\ refresh_token \in TokenOrNone
  /\ location = AppPage
  /\ pc = [r \in Requests |-> "idle"]
  /\ retry = [r \in Requests |-> FALSE]
  /\ authHeader = [r \in Requests |-> None]
  /\ attempts = [r \in Requests |-> 0]
  /\ refreshCalls = [r \in Requests |-> 0]
  /\ refreshResult = [r \in Requests |-> "none"]
  /\ outcome = [r \in Requests |-> [kind |-> "pending", status |-> NoResponse]]
  /\ lastSent = NoCall
  /\ InitServerIdle

NetworkReturn(r) ==
  \/ ResponseOk(r)
  \/ \E status \in ErrorStatuses : ResponseError(r, status)
  \/ \E at \in Tokens, newRefresh \in TokenOrNone : RefreshOk(r, at, newRefresh)
  \/ \E status \in ErrorStatuses : RefreshFail(r, status)

NextClient ==
  \/ \E r \in Requests : Request(r)
  \/ \E r \in Requests : ResponseOk(r)
  \/ \E r \in Requests, status \in ErrorStatuses : ResponseError(r, status)
  \/ \E r \in Requests, at \in Tokens, newRefresh \in TokenOrNone :
       RefreshOk(r, at, newRefresh)
  \/ \E r \in Requests, status \in ErrorStatuses : RefreshFail(r, status)

SpecClient == InitClient /\ [][NextClient]_vars

\* every network call eventually returns or times out: apiClient calls
\* carry timeout: 30000; for the refresh call, made with the bare axios
\* instance, this is the assumption under which termination is stated
FairSpecClient ==
  SpecClient /\ \A r \in Requests : WF_vars(NetworkReturn(r))

(***************************************************************************)
(* Backend: users.  Strings are sequences of one-character strings.        *)
(***************************************************************************)
\* number of user rows the table may hold
MaxUsers == 2

LowerLetters == {"a", "b", "x", "i", "o"}
UpperLetters == {"A", "B", "X", "I", "O"}
Letters == LowerLetters \cup UpperLetters
Digits == {"0", "1", "2", "3", "4", "5", "6", "7", "8", "9"}
Whitespace == {" ", "\t", "\n"}
ToLower == [A |-> "a", B |-> "b", X |-> "x", I |-> "i", O |-> "o"]

\* str.lower()
lower(s) ==
  [k \in 1..Len(s) |-> IF s[k] \in DOMAIN ToLower THEN ToLower[s[k]] ELSE s[k]]

RECURSIVE lstrip(_)
lstrip(s) ==
  IF s # <<>> /\ Head(s) \in Whitespace THEN lstrip(Tail(s)) ELSE s

RECURSIVE rstrip(_)
rstrip(s) ==
  IF s # <<>> /\ s[Len(s)] \in Whitespace
    THEN rstrip(SubSeq(s, 1, Len(s) - 1))
    ELSE s

\* str.strip()
strip(s) == rstrip(lstrip(s))

\* re.match(r'^[a-zA-Z0-9._%+-]+@[a-zA-Z0-9.-]+\.[a-zA-Z]{2,}$', email)
LocalChars == Letters \cup Digits \cup {".", "_", "%", "+", "-"}
DomainChars == Letters \cup Digits \cup {".", "-"}
MinTldLen == 2
email_regex(e) ==
  \E at \in 2..Len(e), dot \in 1..Len(e) :
    /\ e[at] = "@"
    /\ \A k \in 1..(at - 1) : e[k] \in LocalChars
    /\ dot > at + 1
    /\ e[dot] = "."
    /\ \A k \in (at + 1)..(dot - 1) : e[k] \in DomainChars
    /\ Len(e) - dot >= MinTldLen
    /\ \A k \in (dot + 1)..Len(e) : e[k] \in Letters

InvalidEmail == <<"!">>

\* variant: the email is trimmed but its case is kept
validate_email_keeps_case(email) ==
  LET e == strip(email)
  IN  IF email_regex(e) THEN e ELSE InvalidEmail

\* validate_email of auth.py: the normalized email, or InvalidEmail when
\* the function raises ValueError
validate_email(email) ==
  LET e == strip(lower(email))
  IN  IF email_regex(e) THEN e ELSE InvalidEmail

\* variant: PUT /me uses the email as sent
NormalizeProfileEmailRaw(email) == email

\* PUT /me: .strip().lower() before the conflict check and the assignment
NormalizeProfileEmail(email) == lower(strip(email))

MinPasswordLen == 6

StatusOk == 200
StatusCreated == 201
StatusInvalid == 400
StatusNotFound == 404
StatusConflict == 409

\* bcrypt hash, kept abstract: the hash of a password is not the password
get_password_hash(password) == [bcrypt |-> password]

Omitted == <<"<omitted>">>
NoUser == [id |-> 0]

\* variant: the response carries the stored row as it is
RawUser(id, row) ==
  [id |-> id, email |-> row.email, first_name |-> row.first_name,
   last_name |-> row.last_name, hashed_password |-> row.hashed_password]

\* the safe user dict of the responses: no hashed_password
PublicUser(id, row) ==
  [id |-> id, email |-> row.email,
   first_name |-> row.first_name, last_name |-> row.last_name]

UserWithEmail(email) == {u \in DOMAIN users : users[u].email = email}

\* POST /register
Register(email, password, first_name, last_name) ==
  LET e == validate_email(email)
      row == [email |-> e, hashed_password |-> get_password_hash(password),
              first_name |-> first_name, last_name |-> last_name]
  IN
  /\ lastReq' = [op |-> "register", caller |-> 0, email |-> email,
                 password |-> password]
  /\ IF e = InvalidEmail \/ Len(password) < MinPasswordLen
       THEN /\ lastResp' = [status |-> StatusInvalid, user |-> NoUser]
            /\ users' = users
       ELSE IF UserWithEmail(e) # {}
         THEN /\ lastResp' = [status |-> StatusConflict, user |-> NoUser]
              /\ users' = users
         ELSE /\ Len(users) < MaxUsers
              /\ users' = Append(users, row)
              /\ lastResp' = [status |-> StatusCreated,
                              user |-> PublicUser(Len(users) + 1, row)]
  /\ UNCHANGED <<tasks, nextTaskId>>
  /\ UNCHANGED <<clientVars, auxVars>>

\* variant: a name the patch leaves out is stored as the empty string
UpdateProfileOverwrites(caller, email, first_name, last_name) ==
  LET e == IF email = Omitted THEN users[caller].email
                              ELSE NormalizeProfileEmail(email)
      row == [users[caller] EXCEPT
                !.email = e,
                !.first_name = IF first_name = Omitted THEN <<>> ELSE first_name,
                !.last_name = IF last_name = Omitted THEN <<>> ELSE last_name]
  IN
  /\ caller \in DOMAIN users
  /\ lastReq' = [op |-> "update_profile", caller |-> caller, email |-> email,
                 first_name |-> first_name, last_name |-> last_name]
  /\ IF UserWithEmail(e) \ {caller} # {}
       THEN /\ lastResp' = [status |-> StatusConflict, user |-> NoUser]
            /\ users' = users
       ELSE /\ users' = [users EXCEPT ![caller] = row]
            /\ lastResp' = [status |-> StatusOk, user |-> PublicUser(caller, row)]
  /\ UNCHANGED <<tasks, nextTaskId>>
  /\ UNCHANGED <<clientVars, auxVars>>

\* PUT /me by the authenticated user caller; Omitted marks a field that
\* the patch does not contain
UpdateProfile(caller, email, first_name, last_name) ==
  LET e == IF email = Omitted THEN users[caller].email
                              ELSE NormalizeProfileEmail(email)
      row == [users[caller] EXCEPT
                !.email = e,
                !.first_name = IF first_name = Omitted THEN @ ELSE first_name,
                !.last_name = IF last_name = Omitted THEN @ ELSE last_name]
  IN
  /\ caller \in DOMAIN users
  /\ lastReq' = [op |-> "update_profile", caller |-> caller, email |-> email,
                 first_name |-> first_name, last_name |-> last_name]
  /\ IF UserWithEmail(e) \ {caller} # {}
       THEN /\ lastResp' = [status |-> StatusConflict, user |-> NoUser]
            /\ users' = users
       ELSE /\ users' = [users EXCEPT ![caller] = row]
            /\ lastResp' = [status |-> StatusOk, user |-> PublicUser(caller, row)]
  /\ UNCHANGED <<tasks, nextTaskId>>
  /\ UNCHANGED <<clientVars, auxVars>>

InitClientIdle ==
  /\ access_token = None
  /\ refresh_token = None
  /\ location = AppPage
  /\ pc = [r \in Requests |-> "idle"]
  /\ retry = [r \in Requests |-> FALSE]
  /\ authHeader = [r \in Requests |-> None]
  /\ attempts = [r \in Requests |-> 0]
  /\ refreshCalls = [r \in Requests |-> 0]
  /\ refreshResult = [r \in Requests |-> "none"]
  /\ outcome = [r \in Requests |-> [kind |-> "pending", status |-> NoResponse]]
  /\ lastSent = NoCall

EmailInputs ==
  { <<"a", "@", "x", ".", "i", "o">>,
    <<"A", "@", "x", ".", "i", "o">>,
    <<" ", "a", "@", "X", ".", "I", "O", " ">>,
    <<"b", "@", "x", ".", "i", "o">>,
    <<"a", "x", ".", "i", "o">> }
PasswordInputs ==
  { <<"p", "w", "1", "2", "3", "4", "5", "6">>, <<"p", "w", "1">> }
\* names given at registration, and names a profile patch may carry
RegisterNames == { <<"A", "n", "n">> }
Bob == <<"B", "o", "b">>
\* the patches of PUT /me: an email alone, one name alone, email and name
ProfilePatches ==
  [email : EmailInputs, first_name : {Omitted}, last_name : {Omitted}]
    \cup [email : {Omitted}, first_name : {Bob, Omitted}, last_name : {Bob, Omitted}]
    \cup [email : { <<"b", "@", "x", ".", "i", "o">> }, first_name : {Bob},
          last_name : {Omitted}]

InitUsers ==
  /\ InitClientIdle
  /\ InitAuxIdle
  /\ users = <<>>
  /\ tasks = <<>>
  /\ nextTaskId = 1
  /\ lastReq = [op |-> "none", caller |-> 0, email |-> Omitted]
  /\ lastResp = [status |-> 0, user |-> NoUser]

NextUsers ==
  \/ \E email \in EmailInputs, password \in PasswordInputs,
        first_name \in RegisterNames, last_name \in RegisterNames :
       Register(email, password, first_name, last_name)
  \/ \E caller \in 1..MaxUsers, patch \in ProfilePatches :
       UpdateProfile(caller, patch.email, patch.first_name, patch.last_name)

SpecUsers == InitUsers /\ [][NextUsers]_vars

(***************************************************************************)
(* Backend: tasks.  Every operation receives the authenticated caller.     *)
(***************************************************************************)
\* number of tasks ever created
MaxTasks == 2
\* largest offset and limit a list request carries
MaxOffset == 1
MaxLimit == 2

TaskIds == 1..MaxTasks
\* an optional boolean: NoBool when absent, else the singleton of its value
NoBool == {}
OptBool == {NoBool, {TRUE}, {FALSE}}
Value(opt) == CHOOSE b \in opt : TRUE
NotFoundResp == [status |-> StatusNotFound, detail |-> "Task not found"]

\* variant: the lookup ignores the owner
FindTaskAnyOwner(caller, id) == id \in DOMAIN tasks

\* the caller's task with this id exists: the query filters by id and owner
FindTask(caller, id) == id \in DOMAIN tasks /\ tasks[id].owner = caller

TaskView(id, row) ==
  [id |-> id, user_id |-> row.owner, title |-> row.title,
   is_completed |-> row.is_completed]

\* POST /tasks
CreateTask(caller, title) ==
  /\ caller \in DOMAIN users
  /\ lastReq' = [op |-> "create", caller |-> caller, id |-> 0]
  /\ IF title = <<>>
       THEN /\ lastResp' = [status |-> StatusInvalid, detail |-> "title required"]
            /\ UNCHANGED <<tasks, nextTaskId>>
       ELSE /\ nextTaskId <= MaxTasks
            /\ LET row == [owner |-> caller, title |-> title, is_completed |-> FALSE]
               IN  /\ tasks' = [i \in DOMAIN tasks \cup {nextTaskId} |->
                                  IF i = nextTaskId THEN row ELSE tasks[i]]
                   /\ lastResp' = [status |-> StatusCreated,
                                   task |-> TaskView(nextTaskId, row)]
            /\ nextTaskId' = nextTaskId + 1
  /\ UNCHANGED users
  /\ UNCHANGED <<clientVars, auxVars>>

\* GET /tasks/{id}
GetTask(caller, id) ==
  /\ caller \in DOMAIN users
  /\ lastReq' = [op |-> "get", caller |-> caller, id |-> id]
  /\ lastResp' = IF FindTask(caller, id)
                   THEN [status |-> StatusOk, task |-> TaskView(id, tasks[id])]
                   ELSE NotFoundResp
  /\ UNCHANGED <<users, tasks, nextTaskId>>
  /\ UNCHANGED <<clientVars, auxVars>>

\* PUT /tasks/{id}; Omitted and NoBool mark fields the patch leaves out
UpdateTask(caller, id, title, is_completed) ==
  /\ caller \in DOMAIN users
  /\ lastReq' = [op |-> "update", caller |-> caller, id |-> id,
                 title |-> title, is_completed |-> is_completed]
  /\ IF FindTask(caller, id)
       THEN LET row == [tasks[id] EXCEPT
                          !.title = IF title = Omitted THEN @ ELSE title,
                          !.is_completed = IF is_completed = NoBool
                                             THEN @ ELSE Value(is_completed)]
            IN  /\ tasks' = [tasks EXCEPT ![id] = row]
                /\ lastResp' = [status |-> StatusOk, task |-> TaskView(id, row)]
       ELSE /\ lastResp' = NotFoundResp
            /\ tasks' = tasks
  /\ UNCHANGED <<users, nextTaskId>>
  /\ UNCHANGED <<clientVars, auxVars>>

\* variant: the handler ignores the body and flips the stored flag
ToggleCompleteFlips(caller, id, is_completed) ==
  /\ caller \in DOMAIN users
  /\ lastReq' = [op |-> "toggle", caller |-> caller, id |-> id,
                 is_completed |-> is_completed]
  /\ IF FindTask(caller, id)
       THEN LET row == [tasks[id] EXCEPT !.is_completed = ~@]
            IN  /\ tasks' = [tasks EXCEPT ![id] = row]
                /\ lastResp' = [status |-> StatusOk, task |-> TaskView(id, row)]
       ELSE /\ lastResp' = NotFoundResp
            /\ tasks' = tasks
  /\ UNCHANGED <<users, nextTaskId>>
  /\ UNCHANGED <<clientVars, auxVars>>

\* PATCH /tasks/{id}/complete with body {is_completed}
ToggleComplete(caller, id, is_completed) ==
  /\ caller \in DOMAIN users
  /\ lastReq' = [op |-> "toggle", caller |-> caller, id |-> id,
                 is_completed |-> is_completed]
  /\ IF FindTask(caller, id)
       THEN LET row == [tasks[id] EXCEPT !.is_completed = is_completed]
            IN  /\ tasks' = [tasks EXCEPT ![id] = row]
                /\ lastResp' = [status |-> StatusOk, task |-> TaskView(id, row)]
       ELSE /\ lastResp' = NotFoundResp
            /\ tasks' = tasks
  /\ UNCHANGED <<users, nextTaskId>>
  /\ UNCHANGED <<clientVars, auxVars>>

\* variant: the row is kept when the task is deleted
DeleteTaskKeepsRow(caller, id) ==
  /\ caller \in DOMAIN users
  /\ lastReq' = [op |-> "delete", caller |-> caller, id |-> id]
  /\ IF FindTask(caller, id)
       THEN /\ tasks' = tasks
            /\ lastResp' = [status |-> StatusOk, detail |-> "Task deleted"]
       ELSE /\ lastResp' = NotFoundResp
            /\ tasks' = tasks
  /\ UNCHANGED <<users, nextTaskId>>
  /\ UNCHANGED <<clientVars, auxVars>>

\* DELETE /tasks/{id}
DeleteTask(caller, id) ==
  /\ caller \in DOMAIN users
  /\ lastReq' = [op |-> "delete", caller |-> caller, id |-> id]
  /\ IF FindTask(caller, id)
       THEN /\ tasks' = [i \in DOMAIN tasks \ {id} |-> tasks[i]]
            /\ lastResp' = [status |-> StatusOk, detail |-> "Task deleted"]
       ELSE /\ lastResp' = NotFoundResp
            /\ tasks' = tasks
  /\ UNCHANGED <<users, nextTaskId>>
  /\ UNCHANGED <<clientVars, auxVars>>

\* variant: the list query is not filtered by the caller
MatchingAnyOwner(caller, completed) ==
  {i \in DOMAIN tasks :
     completed = NoBool \/ tasks[i].is_completed = Value(completed)}

\* the caller's tasks that match the completed filter (NoBool: no filter)
Matching(caller, completed) ==
  {i \in DOMAIN tasks :
     /\ tasks[i].owner = caller
     /\ (completed = NoBool \/ tasks[i].is_completed = Value(completed))}

\* the ids of a set in creation order
RECURSIVE InOrder(_)
InOrder(S) ==
  IF S = {} THEN <<>>
  ELSE LET m == CHOOSE x \in S : \A y \in S : x <= y
       IN  <<m>> \o InOrder(S \ {m})

\* OFFSET offset LIMIT limit
Page(seq, offset, limit) ==
  SubSeq(seq, offset + 1, IF offset + limit < Len(seq) THEN offset + limit ELSE Len(seq))

\* the total of TaskListResponse: the length of the current page
ListTotal(matching, page) == Len(page)

\* GET /tasks?completed=&offset=&limit=
ListTasks(caller, completed, offset, limit) ==
  LET matching == InOrder(Matching(caller, completed))
      page == Page(matching, offset, limit)
  IN
  /\ caller \in DOMAIN users
  /\ lastReq' = [op |-> "list", caller |-> caller, id |-> 0,
                 completed |-> completed, offset |-> offset, limit |-> limit]
  /\ lastResp' = [status |-> StatusOk, items |-> page,
                  total |-> ListTotal(matching, page)]
  /\ UNCHANGED <<users, tasks, nextTaskId>>
  /\ UNCHANGED <<clientVars, auxVars>>

GoodPassword == <<"p", "w", "1", "2", "3", "4", "5", "6">>
Ann == <<"A", "n", "n">>

\* two registered users, no task yet
InitTasks ==
  /\ InitClientIdle
  /\ InitAuxIdle
  /\ users = << [email |-> <<"a", "@", "x", ".", "i", "o">>,
                 hashed_password |-> get_password_hash(GoodPassword),
                 first_name |-> Ann, last_name |-> Ann],
                [email |-> <<"b", "@", "x", ".", "i", "o">>,
                 hashed_password |-> get_password_hash(GoodPassword),
                 first_name |-> Ann, last_name |-> Ann] >>
  /\ tasks = <<>>
  /\ nextTaskId = 1
  /\ lastReq = [op |-> "none", caller |-> 0, id |-> 0]
  /\ lastResp = [status |-> 0]

TitleInputs == { <<"A">>, <<>> }
PatchTitles == { <<"B">>, Omitted }

NextTasks ==
  \/ \E caller \in DOMAIN users, title \in TitleInputs : CreateTask(caller, title)
  \/ \E caller \in DOMAIN users, id \in TaskIds : GetTask(caller, id)
  \/ \E caller \in DOMAIN users, id \in TaskIds, title \in PatchTitles,
        is_completed \in {NoBool, {TRUE}} :
       UpdateTask(caller, id, title, is_completed)
  \/ \E caller \in DOMAIN users, id \in TaskIds, is_completed \in BOOLEAN :
       ToggleComplete(caller, id, is_completed)
  \/ \E caller \in DOMAIN users, id \in TaskIds : DeleteTask(caller, id)
  \/ \E caller \in DOMAIN users, completed \in {NoBool, {TRUE}}, offset \in 0..MaxOffset,
        limit \in 1..MaxLimit :
       ListTasks(caller, completed, offset, limit)

SpecTasks == InitTasks /\ [][NextTasks]_vars


(***************************************************************************)
(* Backend: login, the current user and the refresh of tokens.  A JWT is   *)
(* the record of its subject and type, whether its signature verifies and  *)
(* whether its exp claim has passed.                                       *)
(***************************************************************************)
verify_password(password, hashed) == hashed = get_password_hash(password)

create_access_token(sub) ==
  [sub |-> sub, typ |-> "access", sig |-> "valid", expired |-> FALSE]
create_refresh_token(sub) ==
  [sub |-> sub, typ |-> "refresh", sig |-> "valid", expired |-> FALSE]
\* a string that is not a JWT
Malformed == [garbage |-> "x"]
JwtFields == {"sub", "typ", "sig", "expired"}

\* variant: the exp claim is not checked
decode_token_ignores_exp(token) ==
  /\ DOMAIN token = JwtFields
  /\ token.sig = "valid"

\* jwt.decode succeeds: well formed, signature verified, not expired
decode_token(token) ==
  /\ DOMAIN token = JwtFields
  /\ token.sig = "valid"
  /\ ~token.expired

InvalidCredentials ==
  [status |-> StatusUnauthorized, detail |-> "Incorrect email or password"]
InvalidToken ==
  [status |-> StatusUnauthorized, detail |-> "Could not validate credentials"]

\* the user a bearer token stands for: the row whose email is the token's sub
get_current_user(token) ==
  IF decode_token(token) /\ token.typ = "access"
    THEN UserWithEmail(token.sub) ELSE {}

\* variant: an unknown email is answered differently from a wrong password
LoginRevealsUnknownEmail(email, password) ==
  LET e == strip(lower(email))
      right == {u \in UserWithEmail(e) :
                  verify_password(password, users[u].hashed_password)}
      u == CHOOSE x \in right : TRUE
  IN
  /\ lastReq' = [op |-> "login", caller |-> 0, email |-> email,
                 password |-> password]
  /\ lastResp' = IF right # {}
                   THEN [status |-> StatusOk,
                         access_token |-> create_access_token(e),
                         refresh_token |-> create_refresh_token(e),
                         token_type |-> "bearer",
                         user |-> PublicUser(u, users[u])]
                   ELSE IF UserWithEmail(e) = {}
                     THEN [status |-> StatusNotFound, detail |-> "User not found"]
                     ELSE InvalidCredentials
  /\ UNCHANGED <<users, tasks, nextTaskId>>
  /\ UNCHANGED <<clientVars, auxVars>>

\* POST /login
Login(email, password) ==
  LET e == strip(lower(email))
      right == {u \in UserWithEmail(e) :
                  verify_password(password, users[u].hashed_password)}
      u == CHOOSE x \in right : TRUE
  IN
  /\ lastReq' = [op |-> "login", caller |-> 0, email |-> email,
                 password |-> password]
  /\ lastResp' = IF right # {}
                   THEN [status |-> StatusOk,
                         access_token |-> create_access_token(e),
                         refresh_token |-> create_refresh_token(e),
                         token_type |-> "bearer",
                         user |-> PublicUser(u, users[u])]
                   ELSE InvalidCredentials
  /\ UNCHANGED <<users, tasks, nextTaskId>>
  /\ UNCHANGED <<clientVars, auxVars>>

\* GET /me with a bearer token
GetMe(token) ==
  LET found == get_current_user(token)
      u == CHOOSE x \in found : TRUE
  IN
  /\ lastReq' = [op |-> "get_me", caller |-> 0, token |-> token]
  /\ lastResp' = IF found # {}
                   THEN [status |-> StatusOk, user |-> PublicUser(u, users[u])]
                   ELSE InvalidToken
  /\ UNCHANGED <<users, tasks, nextTaskId>>
  /\ UNCHANGED <<clientVars, auxVars>>

\* POST /refresh with body {refresh_token}
Refresh(token) ==
  LET ok == /\ decode_token(token)
            /\ token.typ = "refresh"
            /\ UserWithEmail(token.sub) # {}
  IN
  /\ lastReq' = [op |-> "refresh", caller |-> 0, token |-> token]
  /\ lastResp' = IF ok
                   THEN [status |-> StatusOk,
                         access_token |-> create_access_token(token.sub),
                         refresh_token |-> create_refresh_token(token.sub),
                         token_type |-> "bearer"]
                   ELSE InvalidToken
  /\ UNCHANGED <<users, tasks, nextTaskId>>
  /\ UNCHANGED <<clientVars, auxVars>>

EmailA == <<"a", "@", "x", ".", "i", "o">>
EmailB == <<"b", "@", "x", ".", "i", "o">>
OtherPassword == <<"p", "w", "6", "5", "4", "3", "2", "1">>
AuthEmails == {EmailA, <<"A", "@", "x", ".", "i", "o">>, EmailB}
AuthPasswords == {GoodPassword, OtherPassword}
\* the patches of PUT /me here: a new email, or a new first name
AuthPatches ==
  [email : {EmailA, EmailB}, first_name : {Omitted}, last_name : {Omitted}]
    \cup [email : {Omitted}, first_name : {Bob}, last_name : {Omitted}]
\* the tokens a request may present
TokenInputs ==
  [sub : {EmailA, EmailB}, typ : {"access", "refresh"},
   sig : {"valid", "tampered"}, expired : BOOLEAN] \cup {Malformed}

InitAuth ==
  /\ InitClientIdle
  /\ InitAuxIdle
  /\ users = <<>>
  /\ tasks = <<>>
  /\ nextTaskId = 1
  /\ lastReq = [op |-> "none", caller |-> 0]
  /\ lastResp = [status |-> 0]

NextAuth ==
  \/ \E email \in AuthEmails, password \in AuthPasswords :
       Register(email, password, Ann, Ann)
  \/ \E email \in AuthEmails, password \in AuthPasswords : Login(email, password)
  \/ \E token \in TokenInputs : GetMe(token)
  \/ \E caller \in 1..MaxUsers, patch \in AuthPatches :
       UpdateProfile(caller, patch.email, patch.first_name, patch.last_name)
  \/ \E token \in TokenInputs : Refresh(token)

SpecAuth == InitAuth /\ [][NextAuth]_vars


(***************************************************************************)
(* Backend: password reset.  A reset token is the id of its row in the     *)
(* table password_reset_tokens.                                            *)
(***************************************************************************)
\* number of reset tokens ever issued
MaxResetTokens == 2

\* never issued by the server
FakeToken == 0
ResetTokenInputs == 0..MaxResetTokens

ForgotResponse ==
  [status |-> StatusOk,
   message |-> "If an account with that email exists, a reset link has been sent"]
BadResetToken ==
  [status |-> StatusInvalid, detail |-> "Invalid or expired reset token"]
WeakPassword ==
  [status |-> StatusInvalid, detail |-> "Password is too weak"]

\* variant: an email of no user is answered with 404
ForgotPasswordReveals(email) ==
  LET e == strip(lower(email))
      found == UserWithEmail(e)
  IN
  /\ lastReq' = [op |-> "forgot_password", email |-> email]
  /\ IF found # {}
       THEN /\ Len(password_reset_tokens) < MaxResetTokens
            /\ password_reset_tokens' =
                 Append(password_reset_tokens,
                        [user_id |-> CHOOSE u \in found : TRUE,
                         used |-> FALSE, expired |-> FALSE])
            /\ lastResp' = ForgotResponse
       ELSE /\ password_reset_tokens' = password_reset_tokens
            /\ lastResp' = [status |-> StatusNotFound, detail |-> "User not found"]
  /\ UNCHANGED <<users, tasks, nextTaskId, routes, session, pageVars>>
  /\ UNCHANGED clientVars

\* POST /forgot-password: a token row is stored when the email is a user's
ForgotPassword(email) ==
  LET e == strip(lower(email))
      found == UserWithEmail(e)
  IN
  /\ lastReq' = [op |-> "forgot_password", email |-> email]
  /\ IF found # {}
       THEN /\ Len(password_reset_tokens) < MaxResetTokens
            /\ password_reset_tokens' =
                 Append(password_reset_tokens,
                        [user_id |-> CHOOSE u \in found : TRUE,
                         used |-> FALSE, expired |-> FALSE])
       ELSE password_reset_tokens' = password_reset_tokens
  /\ lastResp' = ForgotResponse
  /\ UNCHANGED <<users, tasks, nextTaskId, routes, session, pageVars>>
  /\ UNCHANGED clientVars

\* the expiry time of a stored token passes
ExpireToken(token) ==
  /\ token \in DOMAIN password_reset_tokens
  /\ ~password_reset_tokens[token].expired
  /\ password_reset_tokens' =
       [password_reset_tokens EXCEPT ![token].expired = TRUE]
  /\ UNCHANGED <<users, tasks, nextTaskId, lastReq, lastResp, routes, session, pageVars>>
  /\ UNCHANGED clientVars

\* the token can be redeemed: stored, not used, not expired
RedeemableEvenIfUsed(token) ==
  /\ token \in DOMAIN password_reset_tokens
  /\ ~password_reset_tokens[token].expired

Redeemable(token) ==
  /\ token \in DOMAIN password_reset_tokens
  /\ ~password_reset_tokens[token].used
  /\ ~password_reset_tokens[token].expired

\* POST /reset-password with body {token, new_password}
ResetPassword(token, new_password) ==
  /\ lastReq' = [op |-> "reset_password", token |-> token,
                 new_password |-> new_password]
  /\ IF Len(new_password) < MinPasswordLen
       THEN /\ lastResp' = WeakPassword
            /\ UNCHANGED <<users, password_reset_tokens>>
       ELSE IF ~Redeemable(token)
         THEN /\ lastResp' = BadResetToken
              /\ UNCHANGED <<users, password_reset_tokens>>
         ELSE /\ users' = [users EXCEPT
                             ![password_reset_tokens[token].user_id].hashed_password =
                               get_password_hash(new_password)]
              /\ password_reset_tokens' =
                   [password_reset_tokens EXCEPT ![token].used = TRUE]
              /\ lastResp' = [status |-> StatusOk,
                              message |-> "Password has been reset successfully"]
  /\ UNCHANGED <<tasks, nextTaskId, routes, session, pageVars>>
  /\ UNCHANGED clientVars

UnknownEmail == <<"o", "@", "x", ".", "i", "o">>
ForgotEmails == {EmailA, <<" ", "B", "@", "x", ".", "i", "o">>, UnknownEmail}
NewPasswords == {GoodPassword, OtherPassword, <<"p", "w", "1">>}

\* two registered users, no reset token
InitReset ==
  /\ InitClientIdle
  /\ password_reset_tokens = <<>>
  /\ routes = <<>>
  /\ session = NoSession
  /\ InitPage
  /\ users = << [email |-> EmailA,
                 hashed_password |-> get_password_hash(GoodPassword),
                 first_name |-> Ann, last_name |-> Ann],
                [email |-> EmailB,
                 hashed_password |-> get_password_hash(GoodPassword),
                 first_name |-> Ann, last_name |-> Ann] >>
  /\ tasks = <<>>
  /\ nextTaskId = 1
  /\ lastReq = [op |-> "none"]
  /\ lastResp = [status |-> 0]

NextReset ==
  \/ \E email \in ForgotEmails : ForgotPassword(email)
  \/ \E token \in ResetTokenInputs : ExpireToken(token)
  \/ \E token \in ResetTokenInputs, new_password \in NewPasswords :
       ResetPassword(token, new_password)

SpecReset == InitReset /\ [][NextReset]_vars


(***************************************************************************)
(* Backend: partial updates of tasks and of the profile                    *)
(***************************************************************************)
\* the patches of PUT /me here: any subset of email, first_name, last_name
NewEmail == <<"O", "@", "x", ".", "i", "o">>
FramePatches ==
  [email : {NewEmail, Omitted}, first_name : {Bob, Omitted},
   last_name : {Bob, Omitted}]

\* the first user creates tasks and edits the profile; both users send
\* task patches
NextPatch ==
  \/ CreateTask(1, <<"A">>)
  \/ \E caller \in DOMAIN users, id \in TaskIds, title \in PatchTitles,
        is_completed \in OptBool :
       UpdateTask(caller, id, title, is_completed)
  \/ \E patch \in FramePatches :
       UpdateProfile(1, patch.email, patch.first_name, patch.last_name)

SpecPatch == InitTasks /\ [][NextPatch]_vars


(***************************************************************************)
(* Backend: the router of tasks.py.  A path is the sequence of its         *)
(* segments after the /tasks prefix.                                       *)
(***************************************************************************)
Param == "{task_id}"
\* the routes of tasks.py in their final order
RouteTable ==
  << [method |-> "GET", pattern |-> <<>>, handler |-> "list_tasks"],
     [method |-> "POST", pattern |-> <<>>, handler |-> "create_task"],
     [method |-> "GET", pattern |-> <<Param>>, handler |-> "get_task"],
     [method |-> "PUT", pattern |-> <<Param>>, handler |-> "update_task"],
     [method |-> "PATCH", pattern |-> <<Param, "complete">>,
      handler |-> "toggle_task_complete"],
     [method |-> "DELETE", pattern |-> <<Param>>, handler |-> "delete_task"] >>

\* every order in which the routes can be registered
RegistrationOrders ==
  {p \in [DOMAIN RouteTable -> DOMAIN RouteTable] :
     \A i, j \in DOMAIN RouteTable : p[i] = p[j] => i = j}

Uuids == {"7d9f0e1c-0000-4000-8000-000000000001"}

\* variant: the path parameter is taken as a plain string
is_uuid_any(segment) == TRUE

\* task_id: UUID accepts the segment
is_uuid(segment) == segment \in Uuids

\* the route's path matches: a parameter takes exactly one segment, a
\* literal only itself
Matches(pattern, path) ==
  /\ Len(pattern) = Len(path)
  /\ \A k \in DOMAIN pattern : pattern[k] = Param \/ pattern[k] = path[k]

\* the value bound to task_id by a matching route (None: no parameter)
BoundTaskId(pattern, path) ==
  IF \E k \in DOMAIN pattern : pattern[k] = Param
    THEN path[CHOOSE k \in DOMAIN pattern : pattern[k] = Param]
    ELSE None

NoHandler == "none"
StatusMethodNotAllowed == 405
StatusUnprocessable == 422

\* one request through the router: the first route in registration order
\* whose path and method match handles it; a route whose path alone
\* matches gives 405; the parameter is validated before the handler runs
Dispatch(method, path) ==
  LET full == {i \in DOMAIN routes :
                 Matches(routes[i].pattern, path) /\ routes[i].method = method}
      partial == {i \in DOMAIN routes : Matches(routes[i].pattern, path)}
      first == CHOOSE i \in full : \A j \in full : i <= j
      id == BoundTaskId(routes[first].pattern, path)
  IN
  /\ lastReq' = [op |-> "http", method |-> method, path |-> path]
  /\ lastResp' =
       IF full # {}
         THEN IF id # None /\ ~is_uuid(id)
                THEN [status |-> StatusUnprocessable, handler |-> NoHandler,
                      task_id |-> None]
                ELSE [status |-> StatusOk, handler |-> routes[first].handler,
                      task_id |-> id]
         ELSE IF partial # {}
           THEN [status |-> StatusMethodNotAllowed, handler |-> NoHandler,
                 task_id |-> None]
           ELSE [status |-> StatusNotFound, handler |-> NoHandler,
                 task_id |-> None]
  /\ UNCHANGED <<users, tasks, nextTaskId, password_reset_tokens, routes, session, pageVars>>
  /\ UNCHANGED clientVars

\* the requests sent: the collection, one segment, and sub-paths ending
\* in the literal
Methods == {"GET", "PATCH", "DELETE"}
Segments == Uuids \cup {"complete"}
Paths ==
  {<<>>} \cup {<<a>> : a \in Segments} \cup {<<a, "complete">> : a \in Segments}

InitRoutes ==
  /\ InitClientIdle
  /\ users = <<>>
  /\ tasks = <<>>
  /\ nextTaskId = 1
  /\ password_reset_tokens = <<>>
  /\ session = NoSession
  /\ InitPage
  /\ \E p \in RegistrationOrders :
       routes = [i \in DOMAIN RouteTable |-> RouteTable[p[i]]]
  /\ lastReq = [op |-> "none"]
  /\ lastResp = [status |-> 0]

NextRoutes == \E method \in Methods, path \in Paths : Dispatch(method, path)

SpecRoutes == InitRoutes /\ [][NextRoutes]_vars


(***************************************************************************)
(* Backend: the database session of a request.  While a session is open,   *)
(* users, tasks and nextTaskId are what the session sees (its flushed,     *)
(* uncommitted writes included); when none is open they are the stored     *)
(* state.                                                                  *)
(***************************************************************************)
StatusServerError == 500
ServerError == [status |-> StatusServerError, detail |-> "An unexpected error occurred"]

Database == [users |-> users, tasks |-> tasks, nextTaskId |-> nextTaskId]

\* variant: the failed session's writes stay
rollback_keeps_writes(before, now) == now

\* session.rollback(): the writes of the session are discarded
rollback(before, now) == before

\* a request gets a fresh session from the pool
BeginRequest ==
  /\ session.status = "idle"
  /\ session' = [status |-> "open", before |-> Database]
  /\ lastReq' = [op |-> "none", caller |-> 0]
  /\ lastResp' = [status |-> 0]
  /\ UNCHANGED <<users, tasks, nextTaskId, password_reset_tokens, routes>>
  /\ UNCHANGED <<clientVars, pageVars>>

\* the handler of the request has not run yet
HandlerPending == session.status = "open" /\ lastReq.op = "none"

\* session.commit() succeeds and the session is closed
CommitRequest ==
  /\ session.status = "open"
  /\ lastReq.op # "none"
  /\ session' = NoSession
  /\ UNCHANGED <<users, tasks, nextTaskId, lastReq, lastResp,
                 password_reset_tokens, routes>>
  /\ UNCHANGED <<clientVars, pageVars>>

\* a statement or the commit raises: the session is rolled back and
\* closed, and the error is returned
FailRequest ==
  LET restored == rollback(session.before, Database)
  IN
  /\ session.status = "open"
  /\ users' = restored.users
  /\ tasks' = restored.tasks
  /\ nextTaskId' = restored.nextTaskId
  /\ lastResp' = ServerError
  /\ session' = NoSession
  /\ UNCHANGED <<lastReq, password_reset_tokens, routes>>
  /\ UNCHANGED <<clientVars, pageVars>>

\* one registered user, no task, no session
InitDb ==
  /\ InitClientIdle
  /\ InitAuxIdle
  /\ users = << [email |-> EmailA,
                 hashed_password |-> get_password_hash(GoodPassword),
                 first_name |-> Ann, last_name |-> Ann] >>
  /\ tasks = <<>>
  /\ nextTaskId = 1
  /\ lastReq = [op |-> "none", caller |-> 0]
  /\ lastResp = [status |-> 0]

NextDb ==
  \/ BeginRequest
  \/ HandlerPending /\ \E email \in {EmailA, EmailB} :
       Register(email, GoodPassword, Ann, Ann)
  \/ HandlerPending /\ UpdateProfile(1, Omitted, Bob, Omitted)
  \/ HandlerPending /\ CreateTask(1, <<"A">>)
  \/ HandlerPending /\ \E id \in TaskIds : UpdateTask(1, id, <<"B">>, NoBool)
  \/ HandlerPending /\ \E id \in TaskIds : ToggleComplete(1, id, TRUE)
  \/ HandlerPending /\ \E id \in TaskIds : DeleteTask(1, id)
  \/ CommitRequest
  \/ FailRequest

SpecDb == InitDb /\ [][NextDb]_vars

(***************************************************************************)
(* Email change: one user is registered with EmailA; users register, log   *)
(* in, change their profile and present tokens.                            *)
(***************************************************************************)
SpecEmailChange == InitDb /\ [][NextAuth]_vars


(***************************************************************************)
(* Frontend: the dashboard page.  A handler that awaits a taskApi call is  *)
(* two steps: the one that issues the call and the one that runs when the  *)
(* call settles; the user may act on the page in between.                  *)
(***************************************************************************)
MaxCalls == 2
MaxTrigger == 3
PageTasks == 1..MaxTasks

\* the call is put among the awaited ones; the counter stays within
\* MaxTrigger whatever the calls in flight answer
Issue(call) ==
  /\ BagCardinality(inFlight) < MaxCalls
  /\ refreshTrigger + BagCardinality(inFlight) < MaxTrigger
  /\ inFlight' = inFlight (+) SetToBag({call})

\* "Add Task" in the header and onAddTask of the table
OpenAddTask ==
  /\ editingTask' = NoTask
  /\ showTaskModal' = TRUE
  /\ UNCHANGED <<deletingTask, refreshTrigger, inFlight, lastCall>>
  /\ UNCHANGED <<clientVars, serverVars, password_reset_tokens, routes, session>>

\* onEditTask of the table
OnEditTask(task) ==
  /\ editingTask' = task
  /\ showTaskModal' = TRUE
  /\ UNCHANGED <<deletingTask, refreshTrigger, inFlight, lastCall>>
  /\ UNCHANGED <<clientVars, serverVars, password_reset_tokens, routes, session>>

\* onDeleteTask of the table
OnDeleteTask(task) ==
  /\ deletingTask' = task
  /\ UNCHANGED <<showTaskModal, editingTask, refreshTrigger, inFlight, lastCall>>
  /\ UNCHANGED <<clientVars, serverVars, password_reset_tokens, routes, session>>

\* onClose of the task form modal
CloseTaskModal ==
  /\ showTaskModal
  /\ showTaskModal' = FALSE
  /\ editingTask' = NoTask
  /\ UNCHANGED <<deletingTask, refreshTrigger, inFlight, lastCall>>
  /\ UNCHANGED <<clientVars, serverVars, password_reset_tokens, routes, session>>

\* onClose of the delete confirmation
CloseDeleteModal ==
  /\ deletingTask # NoTask
  /\ deletingTask' = NoTask
  /\ UNCHANGED <<showTaskModal, editingTask, refreshTrigger, inFlight, lastCall>>
  /\ UNCHANGED <<clientVars, serverVars, password_reset_tokens, routes, session>>

\* confirmDelete up to its await
ConfirmDelete ==
  /\ deletingTask # NoTask
  /\ Issue([op |-> "delete", id |-> deletingTask])
  /\ UNCHANGED <<showTaskModal, editingTask, deletingTask, refreshTrigger, lastCall>>
  /\ UNCHANGED <<clientVars, serverVars, password_reset_tokens, routes, session>>

\* the call handleFormSubmit makes
SubmittedCall ==
  IF editingTask # NoTask THEN [op |-> "update", id |-> editingTask]
                          ELSE [op |-> "create", id |-> NoTask]

\* handleFormSubmit up to its await; the modal submits while it is open
HandleFormSubmit ==
  /\ showTaskModal
  /\ Issue(SubmittedCall)
  /\ UNCHANGED <<showTaskModal, editingTask, deletingTask, refreshTrigger, lastCall>>
  /\ UNCHANGED <<clientVars, serverVars, password_reset_tokens, routes, session>>

\* variant: the catch blocks close what was open
AfterFailureCloses(call) ==
  /\ showTaskModal' = (showTaskModal /\ call.op = "delete")
  /\ editingTask' = IF call.op = "delete" THEN editingTask ELSE NoTask
  /\ deletingTask' = IF call.op = "delete" THEN NoTask ELSE deletingTask
  /\ refreshTrigger' = refreshTrigger

\* the catch blocks: the error is logged (and, for the form, thrown on)
AfterFailure(call) ==
  /\ UNCHANGED <<showTaskModal, editingTask, deletingTask, refreshTrigger>>

\* the statements after the await
AfterSuccess(call) ==
  /\ refreshTrigger' = refreshTrigger + 1
  /\ IF call.op = "delete"
       THEN /\ deletingTask' = NoTask
            /\ UNCHANGED <<showTaskModal, editingTask>>
       ELSE /\ editingTask' = NoTask
            /\ showTaskModal' = FALSE
            /\ UNCHANGED deletingTask

\* an awaited call settles and its handler runs on
CallSettles(call, ok) ==
  /\ BagIn(call, inFlight)
  /\ inFlight' = inFlight (-) SetToBag({call})
  /\ lastCall' = [op |-> call.op, id |-> call.id,
                  result |-> IF ok THEN "ok" ELSE "failed"]
  /\ IF ok THEN AfterSuccess(call) ELSE AfterFailure(call)
  /\ UNCHANGED <<clientVars, serverVars, password_reset_tokens, routes, session>>

InitDashboard ==
  /\ InitClientIdle
  /\ InitServerIdle

NextDashboard ==
  \/ OpenAddTask
  \/ \E task \in PageTasks : OnEditTask(task)
  \/ \E task \in PageTasks : OnDeleteTask(task)
  \/ CloseTaskModal
  \/ CloseDeleteModal
  \/ ConfirmDelete
  \/ HandleFormSubmit
  \/ \E call \in BagToSet(inFlight), ok \in BOOLEAN : CallSettles(call, ok)

SpecDashboard == InitDashboard /\ [][NextDashboard]_vars

(***************************************************************************)
(* Properties of the API client                                            *)
(***************************************************************************)
Settled == {"resolved", "rejected"}

\* C1: a request causes at most one refresh call and at most one retry
\* (two attempts in all), whatever the server answers; once the request
\* carries the _retry flag, a 401 never starts another refresh.
C1_AtMostOneRefreshAndRetry ==
  \A r \in Requests :
    /\ refreshCalls[r] <= 1
    /\ attempts[r] <= 2
    /\ (attempts[r] = 2 => retry[r])
    /\ (pc[r] = "refreshing" => attempts[r] = 1)

\* a retried attempt was itself answered with 401 and the request settled
C1_Witness ==
  \E r \in Requests :
    /\ attempts[r] = 2
    /\ refreshCalls[r] = 1
    /\ pc[r] = "rejected"
    /\ outcome[r] = [kind |-> "error", status |-> StatusUnauthorized]

\* C2: when the refresh call of a request fails, that step removes both
\* stored tokens and navigates to /auth/login, and the request is rejected
\* without ever being sent again.
C2_RefreshFailureClearsAndRedirects ==
  [][\A r \in Requests :
       (refreshCalls'[r] = 1 /\ refreshResult'[r] = "failed") =>
         /\ pc'[r] = "rejected"
         /\ attempts'[r] = 1
         /\ (refreshResult[r] = "pending" =>
               /\ access_token' = None
               /\ refresh_token' = None
               /\ location' = LoginPage)]_vars

\* a refresh call was issued and failed with a server error
C2_Witness ==
  \E r \in Requests :
    /\ refreshCalls[r] = 1
    /\ refreshResult[r] = "failed"
    /\ outcome[r] = [kind |-> "refreshError", status |-> 500]
    /\ location = LoginPage

\* C3: under the assumption that every network call returns, every request
\* that was sent eventually settles.
C3_EveryRequestSettles ==
  \A r \in Requests : (pc[r] # "idle") ~> (pc[r] \in Settled)

\* a request settled after a 401, a refresh and a second 401
C3_Witness ==
  \E r \in Requests :
    /\ pc[r] \in Settled
    /\ attempts[r] = 2
    /\ outcome[r].status = StatusUnauthorized

\* C4: a request is sent a second time only in the step in which its
\* pending refresh succeeds and the returned access token is stored; a
\* request whose refresh is pending or failed has been sent once.
C4_RetryOnlyAfterRefreshStored ==
  [][\A r \in Requests :
       /\ (attempts[r] >= 1 /\ attempts'[r] # attempts[r]) =>
            /\ refreshResult[r] = "pending"
            /\ refreshResult'[r] = "ok"
            /\ authHeader'[r] # None
            /\ access_token' = authHeader'[r]
       /\ (refreshResult'[r] \in {"pending", "failed"} => attempts'[r] <= 1)]_vars

\* a retry is on the wire after a successful refresh
C4_Witness ==
  \E r \in Requests :
    /\ attempts[r] = 2
    /\ refreshResult[r] = "ok"
    /\ pc[r] = "sent"
    /\ access_token = authHeader[r]

\* C5 as stated: every outbound call carries as Authorization the access
\* token stored when it is sent.
C5_EveryCallCarriesStoredToken ==
  (lastSent.kind # "none" /\ lastSent.stored # None) =>
    lastSent.hdr = lastSent.stored

\* C5 amended: every call made through apiClient carries the access token
\* stored when it is sent; the refresh call carries no Authorization.
C5_ApiCallsCarryStoredToken ==
  /\ (lastSent.kind = "api" /\ lastSent.stored # None) =>
       lastSent.hdr = lastSent.stored
  /\ lastSent.kind = "refresh" => lastSent.hdr = None

\* a refresh call went out while an access token was stored, and later a
\* retry went out with the token of the refresh
C5_Witness ==
  /\ lastSent.kind = "api"
  /\ lastSent.hdr # None
  /\ \E r \in Requests : attempts[r] = 2 /\ authHeader[r] = lastSent.hdr

(***************************************************************************)
(* Properties of the users                                                 *)
(***************************************************************************)
\* two emails are the same address: equal once lowercased and trimmed
SameAddress(e1, e2) == strip(lower(e1)) = strip(lower(e2))

RegisteredAs(email) == \E u \in DOMAIN users : SameAddress(users[u].email, email)

\* C6 as stated: a register call whose email is that of a user, in any
\* casing or with surrounding whitespace, is answered 409 and leaves the
\* users unchanged.
C6_DuplicateAlwaysConflict ==
  [][(lastReq'.op = "register" /\ RegisteredAs(lastReq'.email)) =>
       (lastResp'.status = StatusConflict /\ users' = users)]_vars

\* C6 amended: such a call never creates a user; it is answered 409 when
\* it passes input validation (well-formed email, password of at least
\* MinPasswordLen characters) and 400 otherwise.
C6_DuplicateNeverCreatesUser ==
  [][(lastReq'.op = "register" /\ RegisteredAs(lastReq'.email)) =>
       /\ users' = users
       /\ lastResp'.status =
            IF /\ email_regex(strip(lower(lastReq'.email)))
               /\ Len(lastReq'.password) >= MinPasswordLen
              THEN StatusConflict ELSE StatusInvalid]_vars

\* a registration with a casing or whitespace variant of a registered
\* email was answered 409
C6_Witness ==
  /\ lastReq.op = "register"
  /\ lastResp.status = StatusConflict
  /\ \A u \in DOMAIN users : users[u].email # lastReq.email
  /\ RegisteredAs(lastReq.email)

\* C7: the stored emails are normalized and pairwise different, and a
\* PUT /me that changes the email to one held by another user, in any
\* casing, is answered 409 and changes no user.
C7_EmailsStayUnique ==
  [][/\ \A u \in DOMAIN users' : users'[u].email = strip(lower(users'[u].email))
     /\ \A u1, u2 \in DOMAIN users' : u1 # u2 => users'[u1].email # users'[u2].email
     /\ (/\ lastReq'.op = "update_profile"
         /\ lastReq'.email # Omitted
         /\ \E u \in DOMAIN users \ {lastReq'.caller} :
              SameAddress(users[u].email, lastReq'.email))
        => (lastResp'.status = StatusConflict /\ users' = users)]_vars

\* a PUT /me with a casing variant of another user's email was answered 409
C7_Witness ==
  /\ lastReq.op = "update_profile"
  /\ lastResp.status = StatusConflict
  /\ Len(users) = 2
  /\ \A u \in DOMAIN users : users[u].email # lastReq.email
  /\ \E u \in DOMAIN users \ {lastReq.caller} :
       SameAddress(users[u].email, lastReq.email)

(***************************************************************************)
(* Properties of the tasks                                                 *)
(***************************************************************************)
ItemOps == {"get", "update", "delete", "toggle"}

\* C8: the total of a list response is the number of the caller's tasks
\* that match the filter, whatever the offset and the limit.
C8_TotalCountsAllMatching ==
  lastReq.op = "list" =>
    lastResp.total = Cardinality(Matching(lastReq.caller, lastReq.completed))

\* C9: get, update, delete and toggle-complete by a caller who does not
\* own the task answer exactly as for an id that does not exist (404 with
\* the same body, never 403) and leave the tasks unchanged.
C9_ForeignTaskLooksMissing ==
  [][(/\ lastReq'.op \in ItemOps
      /\ (lastReq'.id \in DOMAIN tasks =>
            tasks[lastReq'.id].owner # lastReq'.caller))
     => (lastResp' = NotFoundResp /\ tasks' = tasks)]_vars

\* a caller got not-found for an existing task of another user
C9_Witness ==
  /\ lastReq.op \in ItemOps
  /\ lastReq.id \in DOMAIN tasks
  /\ tasks[lastReq.id].owner # lastReq.caller
  /\ lastResp = NotFoundResp

\* C10: every task has one owner, a user, that never changes; a task is
\* changed or removed only by a request of its owner; a list response
\* holds only tasks of the caller.
C10_TasksStayWithTheirOwner ==
  [][/\ \A i \in DOMAIN tasks' : tasks'[i].owner \in DOMAIN users'
     /\ \A i \in DOMAIN tasks :
          /\ i \in DOMAIN tasks' => tasks'[i].owner = tasks[i].owner
          /\ (i \notin DOMAIN tasks' \/ tasks'[i] # tasks[i]) =>
               lastReq'.caller = tasks[i].owner
     /\ lastReq'.op = "list" =>
          \A k \in 1..Len(lastResp'.items) :
            /\ lastResp'.items[k] \in DOMAIN tasks
            /\ tasks[lastResp'.items[k]].owner = lastReq'.caller]_vars

\* both users own a task and a list of one of them returned its own task
C10_Witness ==
  /\ lastReq.op = "list"
  /\ Len(lastResp.items) >= 1
  /\ \E i, j \in DOMAIN tasks : tasks[i].owner # tasks[j].owner

\* C13: toggleComplete is idempotent.  After every successful
\* toggleComplete(id, v) the task is still the caller's, its flag equals v
\* and the response is the view of the stored task, so the same call made
\* again finds the task, stores v again and answers the same; and a
\* successful toggle with the value the flag already has changes no task.
C13_ToggleCompleteIdempotent ==
  [][(lastReq'.op = "toggle" /\ lastResp'.status = StatusOk) =>
       LET id == lastReq'.id
           v == lastReq'.is_completed
       IN  /\ id \in DOMAIN tasks'
           /\ tasks'[id].owner = lastReq'.caller
           /\ tasks'[id].is_completed = v
           /\ lastResp'.task = TaskView(id, tasks'[id])
           /\ (tasks[id].is_completed = v => tasks' = tasks)
           /\ ((lastReq = lastReq' /\ lastResp.status = StatusOk) =>
                 /\ lastResp' = lastResp
                 /\ tasks' = tasks)]_vars

\* a task that was completed by an update was toggled to TRUE with success
C13_Witness ==
  /\ lastReq.op = "toggle"
  /\ lastReq.is_completed = TRUE
  /\ lastResp.status = StatusOk
  /\ lastResp.task.is_completed = TRUE
  /\ lastResp.task.title = <<"B">>

\* the number of tasks listed before task i in a list of the caller
Rank(caller, completed, i) ==
  Cardinality({j \in DOMAIN tasks :
                 /\ j < i
                 /\ tasks[j].owner = caller
                 /\ (completed = NoBool \/ tasks[j].is_completed = Value(completed))})

Listed(resp) == {resp.items[k] : k \in DOMAIN resp.items}

\* C14: a created task is stored for its creator; a list by a caller
\* contains every task of the caller that matches the filter and lies in
\* the page window, and nothing else; a deleted task leaves the table and
\* its id never comes back, so no later list contains it; and get, update,
\* delete and toggle-complete on an id that is not in the table answer
\* not-found and change nothing.
C14_ListFollowsCreateAndDelete ==
  [][/\ (lastReq'.op = "create" /\ lastResp'.status = StatusCreated) =>
          /\ lastResp'.task.id \in DOMAIN tasks' \ DOMAIN tasks
          /\ tasks'[lastResp'.task.id].owner = lastReq'.caller
     /\ lastReq'.op = "list" =>
          /\ tasks' = tasks
          /\ \A i \in TaskIds :
               i \in Listed(lastResp') <=>
                 /\ i \in DOMAIN tasks
                 /\ tasks[i].owner = lastReq'.caller
                 /\ (lastReq'.completed = NoBool
                       \/ tasks[i].is_completed = Value(lastReq'.completed))
                 /\ Rank(lastReq'.caller, lastReq'.completed, i) >= lastReq'.offset
                 /\ Rank(lastReq'.caller, lastReq'.completed, i)
                      < lastReq'.offset + lastReq'.limit
     /\ (lastReq'.op = "delete" /\ lastResp'.status = StatusOk) =>
          lastReq'.id \notin DOMAIN tasks'
     /\ \A i \in TaskIds :
          (i < nextTaskId /\ i \notin DOMAIN tasks) => i \notin DOMAIN tasks'
     /\ (lastReq'.op \in ItemOps /\ lastReq'.id \notin DOMAIN tasks) =>
          /\ lastResp' = NotFoundResp
          /\ tasks' = tasks]_vars

\* the creator of a deleted task asked for it and got not-found, while a
\* task created after it is still stored
C14_Witness ==
  /\ lastReq.op = "get"
  /\ lastReq.id = 1
  /\ lastResp = NotFoundResp
  /\ nextTaskId > 2
  /\ 1 \notin DOMAIN tasks
  /\ 2 \in DOMAIN tasks
  /\ tasks[2].owner = lastReq.caller

(***************************************************************************)
(* Properties of login, user responses and refresh                         *)
(***************************************************************************)
\* C11: a login whose email belongs to no user and a login with a known
\* email and a wrong password get one and the same response, status and
\* body; a login with a registered email and its password gets 200 with an
\* access token and a refresh token for that user.
C11_LoginFailuresLookAlike ==
  lastReq.op = "login" =>
    LET e == strip(lower(lastReq.email))
        known == {u \in DOMAIN users : users[u].email = e}
        right == {u \in known :
                    users[u].hashed_password = get_password_hash(lastReq.password)}
    IN  IF right # {}
          THEN /\ lastResp.status = StatusOk
               /\ lastResp.access_token.typ = "access"
               /\ lastResp.refresh_token.typ = "refresh"
               /\ lastResp.access_token.sub = e
               /\ lastResp.refresh_token.sub = e
               /\ lastResp.user.id \in right
          ELSE lastResp = InvalidCredentials

\* a login with a registered email and the wrong password was refused
C11_Witness ==
  /\ lastReq.op = "login"
  /\ lastResp = InvalidCredentials
  /\ \E u \in DOMAIN users :
       /\ users[u].email = strip(lower(lastReq.email))
       /\ users[u].hashed_password # get_password_hash(lastReq.password)

\* C16: no response that carries user data (register, login, GET /me,
\* PUT /me) has a hashed_password field, in the user object or beside it.
C16_NoPasswordHashInResponses ==
  /\ "hashed_password" \notin DOMAIN lastResp
  /\ "user" \in DOMAIN lastResp =>
       /\ "hashed_password" \notin DOMAIN lastResp.user
       /\ "password" \notin DOMAIN lastResp.user

\* PUT /me changed the first name and answered with the user
C16_Witness ==
  /\ lastReq.op = "update_profile"
  /\ lastResp.status = StatusOk
  /\ lastResp.user.first_name = Bob
  /\ users[lastResp.user.id].hashed_password = get_password_hash(OtherPassword)

C12_ResetTokenRedeemedAtMostOnce ==
  [][LET t == lastReq'.token
         \* this step handled a reset-password request
         handled == /\ lastReq'.op = "reset_password"
                    /\ <<lastReq', lastResp'>> # <<lastReq, lastResp>>
     IN
     /\ \A k \in DOMAIN password_reset_tokens :
          /\ k \in DOMAIN password_reset_tokens'
          /\ (password_reset_tokens[k].used => password_reset_tokens'[k].used)
          /\ (password_reset_tokens[k].expired => password_reset_tokens'[k].expired)
     /\ users' # users => (handled /\ lastResp'.status = StatusOk)
     /\ (handled /\ lastResp'.status = StatusOk) =>
          /\ t \in DOMAIN password_reset_tokens
          /\ ~password_reset_tokens[t].used
          /\ ~password_reset_tokens[t].expired
          /\ password_reset_tokens'[t].used
     /\ (handled /\ (t \notin DOMAIN password_reset_tokens
                      \/ password_reset_tokens[t].used
                      \/ password_reset_tokens[t].expired)) =>
          /\ lastResp'.status = StatusInvalid
          /\ users' = users
          /\ password_reset_tokens' = password_reset_tokens]_vars

\* an unexpired token that had set a user's password was presented again
\* with another strong password and refused
C12_Witness ==
  /\ lastReq.op = "reset_password"
  /\ lastResp = BadResetToken
  /\ lastReq.token \in DOMAIN password_reset_tokens
  /\ password_reset_tokens[lastReq.token].used
  /\ ~password_reset_tokens[lastReq.token].expired
  /\ lastReq.new_password = GoodPassword
  /\ users[password_reset_tokens[lastReq.token].user_id].hashed_password
       = get_password_hash(OtherPassword)

\* C20: forgot-password answers every email, a user's or not, with the
\* same 200 response.
C20_ForgotPasswordSameResponse ==
  lastReq.op = "forgot_password" => lastResp = ForgotResponse

\* forgot-password was called with an email of no user and stored no token
C20_Witness ==
  /\ lastReq.op = "forgot_password"
  /\ lastReq.email = UnknownEmail
  /\ lastResp.status = StatusOk
  /\ \A u \in DOMAIN users : users[u].email # UnknownEmail

(***************************************************************************)
(* Properties of partial updates                                           *)
(***************************************************************************)
\* C15: a successful update of a task stores the fields the patch carries
\* and leaves title and completion flag as they were when the patch omits
\* them, and the owner and every other task as they were; a successful
\* PUT /me does the same for email, first name and last name, and leaves
\* the password hash and every other user as they were.
C15_PatchChangesOnlyItsFields ==
  [][/\ (lastReq'.op = "update" /\ lastResp'.status = StatusOk) =>
          LET id == lastReq'.id
          IN  /\ (lastReq'.title = Omitted => tasks'[id].title = tasks[id].title)
              /\ (lastReq'.title # Omitted => tasks'[id].title = lastReq'.title)
              /\ (lastReq'.is_completed = NoBool =>
                    tasks'[id].is_completed = tasks[id].is_completed)
              /\ (lastReq'.is_completed # NoBool =>
                    tasks'[id].is_completed = Value(lastReq'.is_completed))
              /\ tasks'[id].owner = tasks[id].owner
              /\ DOMAIN tasks' = DOMAIN tasks
              /\ \A i \in DOMAIN tasks \ {id} : tasks'[i] = tasks[i]
              /\ users' = users
     /\ (lastReq'.op = "update_profile" /\ lastResp'.status = StatusOk) =>
          LET u == lastReq'.caller
          IN  /\ (lastReq'.email = Omitted => users'[u].email = users[u].email)
              /\ (lastReq'.first_name = Omitted =>
                    users'[u].first_name = users[u].first_name)
              /\ (lastReq'.first_name # Omitted =>
                    users'[u].first_name = lastReq'.first_name)
              /\ (lastReq'.last_name = Omitted =>
                    users'[u].last_name = users[u].last_name)
              /\ (lastReq'.last_name # Omitted =>
                    users'[u].last_name = lastReq'.last_name)
              /\ users'[u].hashed_password = users[u].hashed_password
              /\ Len(users') = Len(users)
              /\ \A w \in DOMAIN users \ {u} : users'[w] = users[w]
              /\ tasks' = tasks]_vars

\* PUT /me with only first_name changed the first name and kept the last
C15_Witness ==
  /\ lastReq.op = "update_profile"
  /\ lastReq.first_name = Bob
  /\ lastReq.last_name = Omitted
  /\ lastReq.email = Omitted
  /\ lastResp.status = StatusOk
  /\ users[lastReq.caller].first_name = Bob
  /\ users[lastReq.caller].last_name = Ann

StoredState == <<users, tasks, nextTaskId>>

Storage == <<access_token, refresh_token, location>>

\* C22: every first 401 of a request, received while a refresh token is
\* stored, issues a refresh call of its own, also while another request is
\* refreshing; a request that is refreshing has issued exactly one call.
C22_RefreshesAreNotCoalesced ==
  [][\A r \in Requests :
       /\ (~retry[r] /\ retry'[r] /\ refresh_token # None) =>
            /\ pc'[r] = "refreshing"
            /\ refreshCalls'[r] = refreshCalls[r] + 1
            /\ lastSent'.kind = "refresh"
       /\ pc'[r] = "refreshing" => refreshCalls'[r] = 1]_vars

\* two refresh calls were made; one succeeded and its request's retry is
\* on the wire, then the other failed, cleared both tokens and redirected
C22_Witness ==
  \E r, q \in Requests :
    /\ r # q
    /\ refreshCalls[r] = 1 /\ refreshCalls[q] = 1
    /\ refreshResult[r] = "ok" /\ pc[r] = "sent" /\ attempts[r] = 2
    /\ authHeader[r] # None
    /\ refreshResult[q] = "failed" /\ pc[q] = "rejected"
    /\ access_token = None /\ refresh_token = None
    /\ location = LoginPage

\* C23: when the retried attempt of a request fails, with 401 or any other
\* error, the caller gets that error, and the step changes no stored token,
\* does not navigate and issues no call.
C23_RetryErrorIsPropagated ==
  [][\A r \in Requests :
       (pc[r] = "sent" /\ retry[r] /\ pc'[r] # "sent") =>
         /\ pc'[r] \in Settled
         /\ pc'[r] = "rejected" =>
              /\ outcome'[r].kind = "error"
              /\ outcome'[r].status \in ErrorStatuses
              /\ Storage' = Storage
              /\ refreshCalls' = refreshCalls
              /\ attempts' = attempts
              /\ lastSent' = lastSent]_vars

\* a retry failed with 500 and the refreshed tokens are still stored
C23_Witness ==
  \E r \in Requests :
    /\ pc[r] = "rejected"
    /\ attempts[r] = 2
    /\ outcome[r] = [kind |-> "error", status |-> 500]
    /\ access_token # None /\ refresh_token # None
    /\ location = AppPage

\* C24: a first 401 received while no refresh token is stored makes no
\* call, removes the access token, navigates to /auth/login and rejects
\* the request, whatever its endpoint.
C24_NoRefreshTokenClearsAndRedirects ==
  [][\A r \in Requests :
       (pc[r] = "sent" /\ ~retry[r] /\ retry'[r] /\ refresh_token = None) =>
         /\ pc'[r] = "rejected"
         /\ outcome'[r].kind = "refreshError"
         /\ access_token' = None
         /\ refresh_token' = None
         /\ location' = LoginPage
         /\ refreshCalls' = refreshCalls
         /\ attempts' = attempts
         /\ lastSent' = lastSent]_vars

\* a login call, sent with an access token but no refresh token stored,
\* was answered 401: the access token is gone and the page is the login page
C24_Witness ==
  \E r \in Requests :
    /\ Endpoint(r) = "/api/v1/login"
    /\ pc[r] = "rejected"
    /\ refreshCalls[r] = 0
    /\ refreshResult[r] = "failed"
    /\ authHeader[r] # None
    /\ access_token = None
    /\ location = LoginPage

\* C25: a request whose refresh step failed is rejected with the error of
\* the refresh step, never with its own 401 response.
C25_RefreshErrorIsDelivered ==
  \A r \in Requests :
    refreshResult[r] = "failed" =>
      /\ pc[r] = "rejected"
      /\ outcome[r].kind = "refreshError"
      /\ (refreshCalls[r] = 0 => outcome[r].status = NoResponse)

\* a refresh call got no response at all and its request was rejected
\* with that error
C25_Witness ==
  \E r \in Requests :
    /\ refreshCalls[r] = 1
    /\ refreshResult[r] = "failed"
    /\ outcome[r] = [kind |-> "refreshError", status |-> NoResponse]

\* a refresh of request r succeeds in this step
RefreshSucceeds(r) == refreshResult[r] = "pending" /\ refreshResult'[r] = "ok"

\* C26 as stated: a successful refresh stores the returned access token,
\* keeps or replaces the refresh token, and leaves both tokens in storage.
C26_BothTokensStoredAfterRefresh ==
  [][\A r \in Requests :
       RefreshSucceeds(r) =>
         /\ access_token' \in Tokens
         /\ access_token' = authHeader'[r]
         /\ (refresh_token' = refresh_token \/ refresh_token' \in Tokens)
         /\ refresh_token' # None]_vars

\* C26 amended: a successful refresh stores the returned access token; the
\* refresh token is either replaced by a returned one or keeps its value,
\* so it is present afterwards when it was present before or the response
\* carried one; it can be absent when another request's failed refresh
\* removed it in between.
C26_RefreshTokenKeptOrReplaced ==
  [][\A r \in Requests :
       RefreshSucceeds(r) =>
         /\ access_token' \in Tokens
         /\ access_token' = authHeader'[r]
         /\ (refresh_token' = refresh_token \/ refresh_token' \in Tokens)
         /\ (refresh_token # None => refresh_token' # None)]_vars

\* a refresh succeeded after another request's failure had cleared the
\* storage, and the response carried no refresh token
C26_Witness ==
  \E r \in Requests :
    /\ refreshResult[r] = "ok"
    /\ pc[r] = "sent"
    /\ access_token = authHeader[r]
    /\ access_token # None
    /\ refresh_token = None

\* C27: the retry of a request goes out with the access token that the
\* refresh returned and stored in the same step, whatever token the first
\* attempt carried and whatever the storage held before.
C27_RetryCarriesRefreshedToken ==
  [][\A r \in Requests :
       (attempts[r] = 1 /\ attempts'[r] = 2) =>
         /\ authHeader'[r] \in Tokens
         /\ authHeader'[r] = access_token'
         /\ lastSent' = [kind |-> "api", hdr |-> access_token',
                         stored |-> access_token']]_vars

\* a retry is on the wire with a token other than the one of its first
\* attempt, stored after another request had cleared the tokens
C27_Witness ==
  \E r, q \in Requests :
    /\ r # q
    /\ pc[r] = "sent" /\ attempts[r] = 2
    /\ refreshResult[q] = "failed" /\ refreshCalls[q] = 1
    /\ location = LoginPage
    /\ access_token # None
    /\ authHeader[r] = access_token
    /\ authHeader[q] # None /\ authHeader[q] # authHeader[r]

\* C28: an error that is not a 401, or that has no response, rejects the
\* request with that same error and changes neither the stored tokens nor
\* the page, and issues no call; only a 401 starts a refresh.
C28_OtherErrorsPassThrough ==
  [][\A r \in Requests :
       /\ (pc[r] = "sent" /\ pc'[r] = "refreshing") =>
            outcome'[r].status = StatusUnauthorized
       /\ (pc[r] = "sent" /\ pc'[r] = "rejected"
             /\ outcome'[r].kind = "error") =>
            /\ Storage' = Storage
            /\ refreshCalls' = refreshCalls
            /\ refreshResult' = refreshResult
            /\ attempts' = attempts
            /\ retry' = retry
            /\ lastSent' = lastSent]_vars

\* a first attempt got no response and was rejected with the tokens kept
C28_Witness ==
  \E r \in Requests :
    /\ pc[r] = "rejected"
    /\ attempts[r] = 1
    /\ ~retry[r]
    /\ outcome[r] = [kind |-> "error", status |-> NoResponse]
    /\ access_token # None /\ refresh_token # None
    /\ location = AppPage

\* C21: once user 1, registered with EmailA, has another email, every
\* request that presents a well-formed, unexpired token whose subject is
\* EmailA is answered 401, and a login with user 1's current email and the
\* unchanged password succeeds.
C21_OldTokensRejectedAfterEmailChange ==
  users[1].email # EmailA =>
    /\ (/\ lastReq.op \in {"get_me", "refresh"}
        /\ decode_token(lastReq.token)
        /\ lastReq.token.sub = EmailA) => lastResp = InvalidToken
    /\ (/\ lastReq.op = "login"
        /\ strip(lower(lastReq.email)) = users[1].email
        /\ lastReq.password = GoodPassword) =>
         /\ lastResp.status = StatusOk
         /\ lastResp.user.email = users[1].email

(***************************************************************************)
(* Properties of the dashboard page                                        *)
(***************************************************************************)
Selection == <<showTaskModal, editingTask, deletingTask>>
Awaited == BagCardinality(inFlight)

\* C29: the refresh counter goes up by exactly one in the step in which a
\* create, update or delete call succeeds and changes in no other step;
\* when a call fails, the modals and their task selections are as before;
\* the call of a form submit is an update of the edited task if a task is
\* being edited and a create otherwise.
C29_DashboardRefreshCounter ==
  [][/\ refreshTrigger' >= refreshTrigger
     /\ Awaited' < Awaited =>
          /\ lastCall'.result = "ok" => refreshTrigger' = refreshTrigger + 1
          /\ lastCall'.result = "failed" =>
               /\ refreshTrigger' = refreshTrigger
               /\ Selection' = Selection
     /\ Awaited' >= Awaited => refreshTrigger' = refreshTrigger
     /\ Awaited' > Awaited =>
          \E call \in BagToSet(inFlight') :
            /\ inFlight' = inFlight (+) SetToBag({call})
            /\ call.op = "delete" => call.id = deletingTask
            /\ call.op = "update" =>
                 editingTask # NoTask /\ call.id = editingTask
            /\ call.op = "create" => editingTask = NoTask]_vars

\* an update failed: the form is still open on the edited task, after an
\* earlier call had succeeded
C29_Witness ==
  /\ lastCall.op = "update"
  /\ lastCall.result = "failed"
  /\ showTaskModal
  /\ editingTask = lastCall.id
  /\ refreshTrigger = 1
====
